---- MODULE Spec2Model ----
(***************************************************************************)
(* A model of the PR-driven scraper, slim_gh_grabber/slim_scraper.py:      *)
(* the crawl/resume controller (__main__), populate_db_from_prs with its   *)
(* batched commits, the progress file, the paginated collectors, the       *)
(* reference extractor and the rate-limited fetcher.                       *)
(*                                                                         *)
(* Values.  A URL that the code builds with an f-string is the tuple of    *)
(* the parts it is built from (the formatting is injective on them).  A    *)
(* JSON-serialised list (json.dumps) is the sequence it serialises, "[]"   *)
(* the empty sequence.  Python's None for a URL is the empty tuple.  The   *)
(* answer make_request gives its caller is a record [ok, data]: ok is the  *)
(* truth value of `if response:`, data the decoded payload.                *)
(***************************************************************************)
EXTENDS Integers, Sequences, FiniteSets, TLC

VARIABLES
    \* the upstream API: what each endpoint answers (fixed for a behaviour)
    api,
    \* durable state: progress.json and the committed rows of fixed_issues.db
    file, committed,
    \* the open connection's uncommitted inserts, and cursor.rowcount
    pending, rowcount,
    \* __main__
    pc, repos, processed_repo_names, repos_to_process, idx, total_count,
    \* populate_db_from_prs
    repo_name, languages, prs, prIdx, linked_issues, issueIdx,
    affected_files, added_for_repo, total_added,
    \* observations of the run in progress (reset at every start)
    reqLog, invocations, insertedRepos, dbErrors,
    \* observations across runs
    loaded, everLoaded,
    \* one call of a paginated collector: its arguments and what came of it
    cPc, cFn, cResps, cPages, cOut, cReqs,
    \* one call of get_issues_from_pr
    xPc, xPr, xRepo, xOut,
    \* one call of make_request: the clock, the requests sent, the replies
    \* handled, the pending sleep and the returned value
    fPc, fUrl, fNow, fSent, fReplies, fSleep, fResult

durableVars == <<file, committed>>
mainVars    == <<repos, processed_repo_names, repos_to_process, idx, total_count>>
repoVars    == <<repo_name, languages, prs, prIdx, linked_issues, issueIdx,
                 affected_files, added_for_repo, total_added>>
runObs      == <<reqLog, invocations, insertedRepos, dbErrors>>
crawlVars   == <<api, file, committed, pending, rowcount, pc, repos,
                 processed_repo_names, repos_to_process, idx, total_count,
                 repo_name, languages, prs, prIdx, linked_issues, issueIdx,
                 affected_files, added_for_repo, total_added,
                 reqLog, invocations, insertedRepos, dbErrors, loaded,
                 everLoaded>>

collectVars == <<cPc, cFn, cResps, cPages, cOut, cReqs>>
extractVars == <<xPc, xPr, xRepo, xOut>>
fetchVars   == <<fPc, fUrl, fNow, fSent, fReplies, fSleep, fResult>>

vars == <<crawlVars, collectVars, extractVars, fetchVars>>

----------------------------------------------------------------------------
(* Program constants *)

\* `added_for_repo % 10 == 0`
CommitBatch == 10
\* get_mit_repos(query="stars:>10000", per_page=100, pages=1000)
MainPages == 1000
\* def get_merged_prs(repo_name, per_page=30, pages=3)
PrPages == 3

----------------------------------------------------------------------------
(* Helpers on sequences *)

Range(s) == {s[i] : i \in DOMAIN s}

None == <<>>

\* make_request's answers as its callers see them
Ok(d) == [ok |-> TRUE, data |-> d]
Failed == [ok |-> FALSE, data |-> <<>>]

\* the answer to the request for page `page` of a listing whose pages the
\* API answers with resps; a page past the listed ones is a failed request
PageResp(resps, page) == IF page <= Len(resps) THEN resps[page] ELSE Failed

----------------------------------------------------------------------------
(* Paginated collectors.  Each returns the accumulated list (out) together  *)
(* with the pages it requested, in order (reqs).                            *)

RECURSIVE mit_repos_loop(_, _, _, _, _)
mit_repos_loop(resps, pages, page, acc, reqs) ==
    IF page > pages THEN [out |-> acc, reqs |-> reqs]
    ELSE LET response == PageResp(resps, page) IN
         IF response.ok
         THEN \* items = data.get("items", []); repos.extend(items)
              mit_repos_loop(resps, pages, page + 1, acc \o response.data,
                             Append(reqs, page))
         ELSE \* break
              [out |-> acc, reqs |-> Append(reqs, page)]

\* a collector that also stops at the first page without items
RECURSIVE mit_repos_loop_StopOnEmpty(_, _, _, _, _)
mit_repos_loop_StopOnEmpty(resps, pages, page, acc, reqs) ==
    IF page > pages THEN [out |-> acc, reqs |-> reqs]
    ELSE LET response == PageResp(resps, page) IN
         IF response.ok /\ response.data # <<>>
         THEN mit_repos_loop_StopOnEmpty(resps, pages, page + 1,
                                         acc \o response.data, Append(reqs, page))
         ELSE [out |-> acc, reqs |-> Append(reqs, page)]

get_mit_repos_StopOnEmpty(resps, pages) ==
    mit_repos_loop_StopOnEmpty(resps, pages, 1, <<>>, <<>>)

get_mit_repos(resps, pages) == mit_repos_loop(resps, pages, 1, <<>>, <<>>)

\* [pr for pr in data if pr.get("merged_at")]
MergedOf(data) == SelectSeq(data, LAMBDA pr : pr.merged_at)

RECURSIVE merged_prs_loop(_, _, _, _, _)
merged_prs_loop(resps, pages, page, acc, reqs) ==
    IF page > pages THEN [out |-> acc, reqs |-> reqs]
    ELSE LET response == PageResp(resps, page) IN
         IF response.ok
         THEN merged_prs_loop(resps, pages, page + 1,
                              acc \o MergedOf(response.data), Append(reqs, page))
         ELSE [out |-> acc, reqs |-> Append(reqs, page)]

get_merged_prs(resps, pages) == merged_prs_loop(resps, pages, 1, <<>>, <<>>)

----------------------------------------------------------------------------
(* Reference extractor.  A PR description is a sequence of tokens:          *)
(*   kw_bare  a closing keyword, white space, "#<num>"                      *)
(*   kw_qual  a closing keyword, white space, "<repo>#<num>"                *)
(*   bare     "#<num>" with no closing keyword before it                    *)
(*   word     any other text                                                *)
(* A missing description (None) has present = FALSE; the empty string is    *)
(* present with no tokens.                                                  *)

NoBody == [present |-> FALSE, toks |-> <<>>]
Body(toks) == [present |-> TRUE, toks |-> toks]

KwBare(n)    == [kind |-> "kw_bare", repo |-> "", num |-> n]
KwQual(r, n) == [kind |-> "kw_qual", repo |-> r, num |-> n]
Bare(n)      == [kind |-> "bare", repo |-> "", num |-> n]
Word         == [kind |-> "word", repo |-> "", num |-> 0]

\* re.findall(patterns[0], body, re.IGNORECASE)
FindAllBare(toks) == SelectSeq(toks, LAMBDA t : t.kind = "kw_bare")

\* re.findall(patterns[1], body, re.IGNORECASE)
FindAllQual(toks, repo) ==
    SelectSeq(toks, LAMBDA t : t.kind = "kw_qual" /\ t.repo = repo)

\* f"https://github.com/{repo_name}/issues/{issue_num}"
IssueUrl(repo, num) == <<"github.com", repo, "issues", num>>

get_issues_from_pr(pr_data, repo) ==
    IF ~pr_data.body.present \/ pr_data.body.toks = <<>>
    THEN <<>>
    ELSE LET matches == FindAllBare(pr_data.body.toks)
                        \o FindAllQual(pr_data.body.toks, repo)
         IN  [i \in 1..Len(matches) |-> IssueUrl(repo, matches[i].num)]

----------------------------------------------------------------------------
(* Enrichment *)

\* json.dumps(list(response.json().keys())) if response else "[]"
get_languages(response) == IF response.ok THEN response.data ELSE <<>>

\* the html URL to API URL flipper of get_affected_files
FilesUrl(pr_url) == <<"api.github.com", pr_url[2], "pulls", pr_url[4], "files">>

\* `if not pr_url: return "[]"`, then
\* json.dumps([file["filename"] ...]) if response and response.json() else "[]"
get_affected_files(pr_url, response) ==
    IF pr_url = None THEN <<>>
    ELSE IF response.ok /\ response.data # <<>> THEN response.data ELSE <<>>

\* a URL built without the test of sha
CommitUrl_Always(repo, sha) == <<"github.com", repo, "commit", sha>>

\* f"https://github.com/{repo_name}/commit/{sha}" if sha else None
CommitUrl(repo, sha) == IF sha # "" THEN <<"github.com", repo, "commit", sha>> ELSE None

----------------------------------------------------------------------------
(* Progress file.  Its content is a serialised list (valid), or what a      *)
(* kill between open(..., "w") and the end of json.dump leaves: an empty    *)
(* or cut-off text (partial); or there is no file (absent).                 *)

NoFile      == [state |-> "absent",  names |-> <<>>]
PartialFile == [state |-> "partial", names |-> <<>>]
ValidFile(names) == [state |-> "valid", names |-> names]

\* except (FileNotFoundError, json.JSONDecodeError): return []
load_progress(f) == IF f.state = "valid" THEN f.names ELSE <<>>

\* a start that does not filter the candidates
ReposToProcess_NoFilter(rs, processed) == rs

\* [repo for repo in repos if repo["full_name"] not in processed_repo_names]
ReposToProcess(rs, processed) ==
    SelectSeq(rs, LAMBDA repo : repo.full_name \notin Range(processed))

----------------------------------------------------------------------------
(* Store.  The table is the sequence of its rows in insertion order: the    *)
(* committed rows followed by the open transaction's.                       *)

Table == committed \o pending

HasRow(table, url) == \E i \in DOMAIN table : table[i].issue_url = url

RowsFor(table, url) == Cardinality({i \in DOMAIN table : table[i].issue_url = url})

\* an insert that reports a row for an ignored duplicate too
InsertOrIgnore_CountsIgnored(table, pend, row) ==
    IF HasRow(table, row.issue_url)
    THEN [pending |-> pend, rowcount |-> 1]
    ELSE [pending |-> Append(pend, row), rowcount |-> 1]

\* a table without the primary key: every insert adds its row
InsertOrIgnore_NoKey(table, pend, row) ==
    [pending |-> Append(pend, row), rowcount |-> 1]

\* INSERT OR IGNORE INTO fixed_issues VALUES (...): the new uncommitted rows
\* and cursor.rowcount
InsertOrIgnore(table, pend, row) ==
    IF HasRow(table, row.issue_url)
    THEN [pending |-> pend, rowcount |-> 0]
    ELSE [pending |-> Append(pend, row), rowcount |-> 1]

----------------------------------------------------------------------------
(* The upstream API.  api.search lists the answers to the pages of the      *)
(* repository search; api.repo[r] holds, for repository r, the answer of    *)
(* the languages endpoint (langs), the answers to the pages of the pull     *)
(* request listing (pulls) and, by PR number, the answer of the PR's file   *)
(* list (files).  An answer is what make_request hands back after its       *)
(* retries.                                                                 *)

\* the largest issue number a PR description refers to
MaxRefs == 12

Repos == {"o/a", "o/b"}

Repo(r) == [full_name |-> r]

PR(r, n, body, merged, base, head) ==
    [number |-> n, html_url |-> <<"github.com", r, "pull", n>>, body |-> body,
     merged_at |-> merged, base_sha |-> base, head_sha |-> head]

\* "fixes #lo, fixes #lo+1, ..., fixes #hi"
RefToks(lo, hi) == [i \in 1..(hi - lo + 1) |-> KwBare(lo + i - 1)]

\* the number of search pages the API lists (it fails every later page)
MaxSearchPages == 2

\* what one page of the repository search may answer
SearchAnswers ==
    {Failed} \cup
    {Ok(items) : items \in {<<>>, <<Repo("o/b")>>, <<Repo("o/a"), Repo("o/b")>>}}

SearchWorlds == UNION {[1..n -> SearchAnswers] : n \in 0..MaxSearchPages}

RepoWorlds(r) ==
    { \* every request for the repository fails
      [langs |-> Failed, pulls |-> <<Failed, Failed, Failed>>,
       files |-> <<Failed, Failed, Failed, Failed>>],
      \* no pull requests at all
      [langs |-> Ok(<<"Python">>), pulls |-> <<Ok(<<>>), Ok(<<>>), Ok(<<>>)>>,
       files |-> <<Failed, Failed, Failed, Failed>>],
      \* a PR without description, one issue fixed by two PRs (the second
      \* naming it twice, with one commit id missing and its file list
      \* failing), an unmerged PR, and a failing third page
      [langs |-> Ok(<<"Python", "C">>),
       pulls |-> << Ok(<< PR(r, 1, NoBody, TRUE, "b1", "h1"),
                         PR(r, 2, Body(<<Word, KwBare(1)>>), TRUE, "b2", "h2"),
                         PR(r, 3, Body(<<KwBare(2)>>), FALSE, "b3", "h3") >>),
                    Ok(<< PR(r, 4, Body(<<KwBare(1), Bare(3), KwQual(r, 1),
                                          KwQual("x/y", 4)>>), TRUE, "", "h4") >>),
                    Failed >>,
       files |-> <<Ok(<<"a.py">>), Ok(<<"a.py", "b.py">>), Ok(<<>>), Failed>>],
      \* CommitBatch - 1 issues in one PR, then one issue each in two PRs
      [langs |-> Failed,
       pulls |-> << Ok(<< PR(r, 1, Body(RefToks(1, CommitBatch - 1)), TRUE, "b1", "h1") >>),
                    Ok(<< PR(r, 2, Body(RefToks(CommitBatch, CommitBatch)), TRUE, "b2", "h2") >>),
                    Ok(<< PR(r, 3, Body(RefToks(CommitBatch + 1, CommitBatch + 1)), TRUE, "b3", "h3") >>) >>,
       files |-> <<Ok(<<"a.py">>), Ok(<<>>), Failed, Failed>>],
      \* CommitBatch - 1 issues in one PR, then a PR that takes the count
      \* past CommitBatch
      [langs |-> Ok(<<>>),
       pulls |-> << Ok(<< PR(r, 1, Body(RefToks(1, CommitBatch - 1)), TRUE, "b1", "h1"),
                         PR(r, 2, Body(RefToks(CommitBatch, MaxRefs)), TRUE, "b2", "h2") >>),
                    Ok(<<>>), Ok(<<>>) >>,
       files |-> <<Ok(<<"a.py">>), Ok(<<"b.py">>), Failed, Failed>>] }

Worlds ==
    { [search |-> s, repo |-> w] :
        s \in SearchWorlds,
        w \in { f \in [Repos -> UNION {RepoWorlds(r) : r \in Repos}] :
                  \A r \in Repos : f[r] \in RepoWorlds(r) } }

----------------------------------------------------------------------------
(* The crawl: __main__ and populate_db_from_prs, one step at a time.        *)

NoCounts == [r \in Repos |-> 0]

\* the interpreter's memory before a run has started
FreshMain ==
    /\ repos = <<>> /\ processed_repo_names = <<>> /\ repos_to_process = <<>>
    /\ idx = 0 /\ total_count = 0

FreshRepo ==
    /\ repo_name = "" /\ languages = <<>> /\ prs = <<>> /\ prIdx = 0
    /\ linked_issues = <<>> /\ issueIdx = 0 /\ affected_files = <<>>
    /\ added_for_repo = 0 /\ total_added = 0

\* nothing has run yet: no progress file, an empty table
CrawlInit ==
    /\ file = NoFile
    /\ committed = <<>>
    /\ pending = <<>>
    /\ rowcount = -1
    /\ pc = "off"
    /\ FreshMain
    /\ FreshRepo
    /\ reqLog = <<>>
    /\ invocations = NoCounts
    /\ insertedRepos = {}
    /\ dbErrors = {}
    /\ loaded = <<>>
    /\ everLoaded = {}

Req(kind, r, i, page) == [kind |-> kind, repo |-> r, idx |-> i, page |-> page]

\* conn.commit()
Commit ==
    /\ committed' = committed \o pending
    /\ pending' = <<>>

\* `if added_for_repo > 0 and added_for_repo % 10 == 0`
ShouldCommit(added) == added > 0 /\ added % CommitBatch = 0

\* the process starts: create_db, the repository search, load_progress and
\* the filter; with no repository found it exits at once
Startup ==
    /\ pc \in {"off", "done"}
    /\ LET found == get_mit_repos(api.search, MainPages).out
           names == load_progress(file)
       IN  /\ repos' = found
           /\ IF found = <<>>
              THEN /\ pc' = "done"
                   /\ processed_repo_names' = <<>>
                   /\ repos_to_process' = <<>>
                   /\ idx' = 0
                   /\ UNCHANGED <<loaded, everLoaded>>
              ELSE /\ pc' = "main_loop"
                   /\ processed_repo_names' = names
                   /\ repos_to_process' = ReposToProcess(found, names)
                   /\ idx' = 1
                   /\ loaded' = names
                   /\ everLoaded' = everLoaded \cup Range(names)
    /\ total_count' = 0
    /\ repo_name' = "" /\ languages' = <<>> /\ prs' = <<>> /\ prIdx' = 0
    /\ linked_issues' = <<>> /\ issueIdx' = 0 /\ affected_files' = <<>>
    /\ added_for_repo' = 0 /\ total_added' = 0
    /\ pending' = <<>>
    /\ rowcount' = -1
    /\ reqLog' = <<>>
    /\ invocations' = NoCounts
    /\ insertedRepos' = {}
    /\ dbErrors' = {}
    /\ UNCHANGED <<api, file, committed>>
    /\ UNCHANGED <<collectVars, extractVars, fetchVars>>

\* `for repo in repos_to_process: count = populate_db_from_prs([repo])`, up
\* to the test `if not prs`
BeginRepo ==
    /\ pc = "main_loop"
    /\ idx <= Len(repos_to_process)
    /\ LET r == repos_to_process[idx].full_name
           got == get_merged_prs(api.repo[r].pulls, PrPages)
       IN  /\ repo_name' = r
           /\ total_added' = 0
           /\ added_for_repo' = 0
           /\ languages' = get_languages(api.repo[r].langs)
           /\ prs' = got.out
           /\ reqLog' = Append(reqLog, Req("languages", r, idx, 0))
                        \o [i \in 1..Len(got.reqs) |-> Req("pulls", r, idx, got.reqs[i])]
           /\ invocations' = [invocations EXCEPT ![r] = @ + 1]
           /\ IF got.out = <<>>
              THEN pc' = "repo_done" /\ prIdx' = 0
              ELSE pc' = "pr_loop" /\ prIdx' = 1
    /\ linked_issues' = <<>> /\ issueIdx' = 0 /\ affected_files' = <<>>
    /\ pending' = <<>>
    /\ rowcount' = -1
    /\ dbErrors' = {}
    /\ UNCHANGED <<api, durableVars, mainVars, insertedRepos, loaded, everLoaded>>
    /\ UNCHANGED <<collectVars, extractVars, fetchVars>>

\* `for pr in prs:` up to the loop over linked_issues
PrStep ==
    /\ pc = "pr_loop"
    /\ LET pr == prs[prIdx]
           li == get_issues_from_pr(pr, repo_name)
           url == FilesUrl(pr.html_url)
       IN  /\ linked_issues' = li
           /\ IF li # <<>>
              THEN /\ affected_files' =
                        get_affected_files(pr.html_url, api.repo[url[2]].files[url[4]])
                   /\ reqLog' = Append(reqLog, Req("files", repo_name, idx, 0))
                   /\ issueIdx' = 1
                   /\ pc' = "issue_loop"
              ELSE /\ pc' = "pr_end"
                   /\ UNCHANGED <<affected_files, reqLog, issueIdx>>
    /\ UNCHANGED <<api, durableVars, pending, rowcount, mainVars, repo_name,
                   languages, prs, prIdx, added_for_repo, total_added,
                   invocations, insertedRepos, dbErrors, loaded, everLoaded>>
    /\ UNCHANGED <<collectVars, extractVars, fetchVars>>

\* the row of one linked issue of the PR at hand
RowOf(issue_url) ==
    LET pr == prs[prIdx] IN
    [issue_url |-> issue_url, repo_name |-> repo_name,
     pull_request_url |-> pr.html_url, languages |-> languages,
     before_code_url |-> CommitUrl(repo_name, pr.base_sha),
     after_code_url |-> CommitUrl(repo_name, pr.head_sha),
     affected_files |-> affected_files]

\* one pass of `for issue_url in linked_issues:`, the statement executing
\* without a sqlite3.Error
InsertIssue ==
    /\ pc = "issue_loop"
    /\ LET res == InsertOrIgnore(Table, pending, RowOf(linked_issues[issueIdx]))
       IN  /\ pending' = res.pending
           /\ rowcount' = res.rowcount
           /\ added_for_repo' = IF res.rowcount > 0 THEN added_for_repo + 1 ELSE added_for_repo
           /\ total_added' = IF res.rowcount > 0 THEN total_added + 1 ELSE total_added
    /\ insertedRepos' = insertedRepos \cup {repo_name}
    /\ issueIdx' = issueIdx + 1
    /\ pc' = IF issueIdx = Len(linked_issues) THEN "pr_end" ELSE "issue_loop"
    /\ UNCHANGED <<api, durableVars, mainVars, repo_name, languages, prs, prIdx,
                   linked_issues, affected_files, reqLog, invocations, dbErrors,
                   loaded, everLoaded>>
    /\ UNCHANGED <<collectVars, extractVars, fetchVars>>

\* the number of inserts that raise in one call of populate_db_from_prs, at
\* most
MaxDbErrors == 3

\* an insert whose error is not caught: the process ends on it
InsertError_Uncaught ==
    /\ pc = "issue_loop"
    /\ Cardinality(dbErrors) < MaxDbErrors
    /\ dbErrors' = dbErrors \cup {<<prs[prIdx].number, issueIdx>>}
    /\ pc' = "done"
    /\ UNCHANGED <<api, durableVars, pending, rowcount, mainVars, repo_name,
                   languages, prs, prIdx, linked_issues, issueIdx,
                   affected_files, added_for_repo, total_added, reqLog,
                   invocations, insertedRepos, loaded, everLoaded>>
    /\ UNCHANGED <<collectVars, extractVars, fetchVars>>

\* an insert that raises and is counted as a new row all the same
InsertError_Counted ==
    /\ pc = "issue_loop"
    /\ Cardinality(dbErrors) < MaxDbErrors
    /\ dbErrors' = dbErrors \cup {<<prs[prIdx].number, issueIdx>>}
    /\ added_for_repo' = added_for_repo + 1
    /\ total_added' = total_added + 1
    /\ issueIdx' = issueIdx + 1
    /\ pc' = IF issueIdx = Len(linked_issues) THEN "pr_end" ELSE "issue_loop"
    /\ UNCHANGED <<api, durableVars, pending, rowcount, mainVars, repo_name,
                   languages, prs, prIdx, linked_issues, affected_files,
                   reqLog, invocations, insertedRepos, loaded, everLoaded>>
    /\ UNCHANGED <<collectVars, extractVars, fetchVars>>

\* one pass of `for issue_url in linked_issues:` in which cursor.execute
\* raises a sqlite3.Error: the except clause prints it and the loop goes on
InsertError ==
    /\ pc = "issue_loop"
    /\ Cardinality(dbErrors) < MaxDbErrors
    /\ dbErrors' = dbErrors \cup {<<prs[prIdx].number, issueIdx>>}
    /\ issueIdx' = issueIdx + 1
    /\ pc' = IF issueIdx = Len(linked_issues) THEN "pr_end" ELSE "issue_loop"
    /\ UNCHANGED <<api, durableVars, pending, rowcount, mainVars, repo_name,
                   languages, prs, prIdx, linked_issues, affected_files,
                   added_for_repo, total_added, reqLog, invocations,
                   insertedRepos, loaded, everLoaded>>
    /\ UNCHANGED <<collectVars, extractVars, fetchVars>>

\* the periodic commit at the end of a PR's pass
PrEnd ==
    /\ pc = "pr_end"
    /\ IF ShouldCommit(added_for_repo)
       THEN Commit
       ELSE UNCHANGED <<committed, pending>>
    /\ prIdx' = prIdx + 1
    /\ pc' = IF prIdx = Len(prs) THEN "final_commit" ELSE "pr_loop"
    /\ UNCHANGED <<api, file, rowcount, mainVars, repo_name, languages, prs,
                   linked_issues, issueIdx, affected_files, added_for_repo,
                   total_added, runObs, loaded, everLoaded>>
    /\ UNCHANGED <<collectVars, extractVars, fetchVars>>

\* `# final commit for this repo`, conn.close() and the return
FinalCommit ==
    /\ pc = "final_commit"
    /\ Commit
    /\ pc' = "repo_done"
    /\ UNCHANGED <<api, file, rowcount, mainVars, repoVars, runObs, loaded,
                   everLoaded>>
    /\ UNCHANGED <<collectVars, extractVars, fetchVars>>

\* back in __main__: the count, the append, and save_progress's
\* open("progress.json", "w"), which empties the file
AppendProgress ==
    /\ pc = "repo_done"
    /\ total_count' = total_count + total_added
    /\ processed_repo_names' = Append(processed_repo_names, repos_to_process[idx].full_name)
    /\ file' = PartialFile
    /\ pc' = "saving"
    /\ UNCHANGED <<api, committed, pending, rowcount, repos, repos_to_process,
                   idx, repoVars, runObs, loaded, everLoaded>>
    /\ UNCHANGED <<collectVars, extractVars, fetchVars>>

\* a loop that goes on to the next repository with the file still unwritten
SaveDump_Skipped ==
    /\ pc = "saving"
    /\ idx' = idx + 1
    /\ pc' = "main_loop"
    /\ UNCHANGED <<api, file, committed, pending, rowcount, repos,
                   processed_repo_names, repos_to_process, total_count,
                   repoVars, runObs, loaded, everLoaded>>
    /\ UNCHANGED <<collectVars, extractVars, fetchVars>>

\* json.dump and the close of the file; then the next repository
SaveDump ==
    /\ pc = "saving"
    /\ file' = ValidFile(processed_repo_names)
    /\ reqLog' = Append(reqLog, Req("save", repos_to_process[idx].full_name, idx, 0))
    /\ idx' = idx + 1
    /\ pc' = "main_loop"
    /\ UNCHANGED <<api, committed, pending, rowcount, repos,
                   processed_repo_names, repos_to_process, total_count,
                   repoVars, invocations, insertedRepos, dbErrors, loaded,
                   everLoaded>>
    /\ UNCHANGED <<collectVars, extractVars, fetchVars>>

\* the candidate list is exhausted: check_db and the end of the process
Finish ==
    /\ pc = "main_loop"
    /\ idx > Len(repos_to_process)
    /\ pc' = "done"
    /\ UNCHANGED <<api, durableVars, pending, rowcount, mainVars, repoVars,
                   runObs, loaded, everLoaded>>
    /\ UNCHANGED <<collectVars, extractVars, fetchVars>>

\* the process is killed: its memory and its open transaction are gone, the
\* file and the committed rows stay as they are
Kill ==
    /\ pc \notin {"off", "done"}
    /\ pc' = "off"
    /\ pending' = <<>>
    /\ rowcount' = -1
    /\ repos' = <<>> /\ processed_repo_names' = <<>> /\ repos_to_process' = <<>>
    /\ idx' = 0 /\ total_count' = 0
    /\ repo_name' = "" /\ languages' = <<>> /\ prs' = <<>> /\ prIdx' = 0
    /\ linked_issues' = <<>> /\ issueIdx' = 0 /\ affected_files' = <<>>
    /\ added_for_repo' = 0 /\ total_added' = 0
    /\ reqLog' = <<>>
    /\ invocations' = NoCounts
    /\ insertedRepos' = {}
    /\ dbErrors' = {}
    /\ UNCHANGED <<api, durableVars, loaded, everLoaded>>
    /\ UNCHANGED <<collectVars, extractVars, fetchVars>>

----------------------------------------------------------------------------
(* One call of a paginated collector, on any answers of the API.            *)

\* the number of pages a collector is asked for, at most
MaxPages == 3

\* what one page of the pull request listing may answer
PullsAnswers ==
    {Failed} \cup
    {Ok(items) : items \in
        {<<>>,
         <<PR("o/a", 1, NoBody, TRUE, "b1", "h1")>>,
         <<PR("o/a", 2, NoBody, FALSE, "b2", "h2"),
           PR("o/a", 3, Body(<<KwBare(1)>>), TRUE, "", "")>>}}

CollectIdle ==
    /\ cPc = "idle" /\ cFn = "" /\ cResps = <<>> /\ cPages = 0
    /\ cOut = <<>> /\ cReqs = <<>>

CallGetMitRepos ==
    /\ cPc = "idle"
    /\ \E resps \in [1..MaxPages -> SearchAnswers], pages \in 0..MaxPages :
         LET got == get_mit_repos(resps, pages)
         IN  /\ cFn' = "get_mit_repos"
             /\ cResps' = resps
             /\ cPages' = pages
             /\ cOut' = got.out
             /\ cReqs' = got.reqs
    /\ cPc' = "returned"
    /\ UNCHANGED <<crawlVars, extractVars, fetchVars>>

CallGetMergedPrs ==
    /\ cPc = "idle"
    /\ \E resps \in [1..MaxPages -> PullsAnswers], pages \in 0..MaxPages :
         LET got == get_merged_prs(resps, pages)
         IN  /\ cFn' = "get_merged_prs"
             /\ cResps' = resps
             /\ cPages' = pages
             /\ cOut' = got.out
             /\ cReqs' = got.reqs
    /\ cPc' = "returned"
    /\ UNCHANGED <<crawlVars, extractVars, fetchVars>>

----------------------------------------------------------------------------
(* One call of get_issues_from_pr, on any description.                      *)

\* the number of tokens of a description, at most
MaxToks == 3

Tokens == {KwBare(1), KwBare(2), KwQual("o/a", 1), KwQual("x/y", 2), Bare(1), Word}

Descriptions ==
    {NoBody} \cup {Body(toks) : toks \in UNION {[1..n -> Tokens] : n \in 0..MaxToks}}

ExtractIdle ==
    /\ xPc = "idle" /\ xPr = [body |-> NoBody] /\ xRepo = "" /\ xOut = <<>>

CallGetIssuesFromPr ==
    /\ xPc = "idle"
    /\ \E body \in Descriptions :
         /\ xPr' = [body |-> body]
         /\ xRepo' = "o/a"
         /\ xOut' = get_issues_from_pr([body |-> body], "o/a")
    /\ xPc' = "returned"
    /\ UNCHANGED <<crawlVars, collectVars, fetchVars>>

----------------------------------------------------------------------------
(* One call of make_request.  Time is counted in seconds; a request is in   *)
(* flight for any time, and time.sleep(d) returns after d seconds or one     *)
(* second later.                                                            *)

\* the clock stops here
MaxTime == 6
\* the number of requests one call sends, at most
MaxAttempts == 3
\* time.sleep(5)
RetryDelay == 5

Urls == {"u1", "u2"}
Statuses == {200, 403, 404, 500, 502, 503, 504}

\* a chain that takes every 403 for a rate limit
Classify_Every403(status, hasReset) ==
    IF status = 200 THEN "ok"
    ELSE IF status = 403 THEN "rate_limited"
    ELSE IF status \in {502, 503, 504} THEN "server_error"
    ELSE "failed"

\* the branch of make_request's if/elif chain a reply takes
Classify(status, hasReset) ==
    IF status = 200 THEN "ok"
    ELSE IF status = 403 /\ hasReset THEN "rate_limited"
    ELSE IF status \in {502, 503, 504} THEN "server_error"
    ELSE "failed"

\* a sleep time without the max(0, ...)
SleepTime_NoClamp(reset_time, t) == reset_time - t

\* sleep_time = max(0, reset_time - time.time())
SleepTime(reset_time, t) == IF reset_time - t > 0 THEN reset_time - t ELSE 0

\* the replies taken into account: the X-RateLimit-Reset header, which the
\* code reads on a 403 only, comes with a 403 only, and without it there is
\* no reset time
HeaderOk(status, hasReset, reset) ==
    /\ hasReset => status = 403
    /\ ~hasReset => reset = 0

Reply(status, hasReset, reset, slept) ==
    [status |-> status, hasReset |-> hasReset, reset |-> reset, at |-> fNow,
     slept |-> slept]

Sent(url, t) == [url |-> url, at |-> t]

FetchIdle ==
    /\ fPc = "idle" /\ fUrl = "" /\ fNow = 0 /\ fSent = <<>> /\ fReplies = <<>>
    /\ fSleep = 0 /\ fResult = "none yet"

\* make_request(url) is called and sends its first request
FetchCall ==
    /\ fPc = "idle"
    /\ \E url \in Urls :
         /\ fUrl' = url
         /\ fSent' = <<Sent(url, fNow)>>
    /\ fPc' = "waiting"
    /\ UNCHANGED <<fNow, fReplies, fSleep, fResult>>
    /\ UNCHANGED <<crawlVars, collectVars, extractVars>>

\* a second passes while the request is in flight
FetchTick ==
    /\ fPc = "waiting"
    /\ fNow < MaxTime
    /\ fNow' = fNow + 1
    /\ UNCHANGED <<fPc, fUrl, fSent, fReplies, fSleep, fResult>>
    /\ UNCHANGED <<crawlVars, collectVars, extractVars>>

\* `if response.status_code == 200: return response`
ReplyOk ==
    /\ fPc = "waiting"
    /\ \E status \in Statuses, hasReset \in BOOLEAN, reset \in 0..MaxTime :
         /\ HeaderOk(status, hasReset, reset)
         /\ Classify(status, hasReset) = "ok"
         /\ fReplies' = Append(fReplies, Reply(status, hasReset, reset, 0))
    /\ fResult' = "response"
    /\ fPc' = "returned"
    /\ UNCHANGED <<fUrl, fNow, fSent, fSleep>>
    /\ UNCHANGED <<crawlVars, collectVars, extractVars>>

\* the 403 branch: the sleep until the rate limit resets
ReplyRateLimited ==
    /\ fPc = "waiting"
    /\ Len(fSent) < MaxAttempts
    /\ \E status \in Statuses, hasReset \in BOOLEAN, reset \in 0..MaxTime :
         /\ HeaderOk(status, hasReset, reset)
         /\ Classify(status, hasReset) = "rate_limited"
         /\ fSleep' = SleepTime(reset, fNow)
         /\ fReplies' = Append(fReplies, Reply(status, hasReset, reset, fSleep'))
    /\ fPc' = "sleeping"
    /\ UNCHANGED <<fUrl, fNow, fSent, fResult>>
    /\ UNCHANGED <<crawlVars, collectVars, extractVars>>

\* the 502/503/504 branch: the fixed sleep
ReplyServerError ==
    /\ fPc = "waiting"
    /\ Len(fSent) < MaxAttempts
    /\ fNow + RetryDelay <= MaxTime
    /\ \E status \in Statuses, hasReset \in BOOLEAN, reset \in 0..MaxTime :
         /\ HeaderOk(status, hasReset, reset)
         /\ Classify(status, hasReset) = "server_error"
         /\ fSleep' = RetryDelay
         /\ fReplies' = Append(fReplies, Reply(status, hasReset, reset, RetryDelay))
    /\ fPc' = "sleeping"
    /\ UNCHANGED <<fUrl, fNow, fSent, fResult>>
    /\ UNCHANGED <<crawlVars, collectVars, extractVars>>

\* the else branch: `return None`
ReplyFailed ==
    /\ fPc = "waiting"
    /\ \E status \in Statuses, hasReset \in BOOLEAN, reset \in 0..MaxTime :
         /\ HeaderOk(status, hasReset, reset)
         /\ Classify(status, hasReset) = "failed"
         /\ fReplies' = Append(fReplies, Reply(status, hasReset, reset, 0))
    /\ fResult' = "None"
    /\ fPc' = "returned"
    /\ UNCHANGED <<fUrl, fNow, fSent, fSleep>>
    /\ UNCHANGED <<crawlVars, collectVars, extractVars>>

\* time.sleep returns and `while True` sends the request again
FetchWake ==
    /\ fPc = "sleeping"
    /\ \E over \in {0, 1} :
         /\ fNow + fSleep + over <= MaxTime
         /\ fNow + fSleep + over >= 0
         /\ fNow' = fNow + fSleep + over
    /\ fSent' = Append(fSent, Sent(fUrl, fNow'))
    /\ fSleep' = 0
    /\ fPc' = "waiting"
    /\ UNCHANGED <<fUrl, fReplies, fResult>>
    /\ UNCHANGED <<crawlVars, collectVars, extractVars>>

----------------------------------------------------------------------------
(* Specifications *)

\* the crawl, with kills and restarts, against every API of Worlds
Init ==
    /\ api \in Worlds
    /\ CrawlInit
    /\ CollectIdle
    /\ ExtractIdle
    /\ FetchIdle

Next ==
    \/ Startup
    \/ BeginRepo
    \/ PrStep
    \/ InsertIssue
    \/ PrEnd
    \/ FinalCommit
    \/ AppendProgress
    \/ SaveDump
    \/ Finish
    \/ Kill

Spec == Init /\ [][Next]_vars

\* an API for the specifications in which the crawl does not run
SomeWorld == CHOOSE w \in Worlds : TRUE

SideInit ==
    /\ api = SomeWorld
    /\ CrawlInit
    /\ CollectIdle
    /\ ExtractIdle
    /\ FetchIdle

\* one call of get_mit_repos or get_merged_prs
NextCollect ==
    \/ CallGetMitRepos
    \/ CallGetMergedPrs

SpecCollect == SideInit /\ [][NextCollect]_vars

\* one call of get_issues_from_pr
NextExtract == CallGetIssuesFromPr

SpecExtract == SideInit /\ [][NextExtract]_vars

\* one call of make_request
NextFetch ==
    \/ FetchCall
    \/ FetchTick
    \/ ReplyOk
    \/ ReplyRateLimited
    \/ ReplyServerError
    \/ ReplyFailed
    \/ FetchWake

SpecFetch == SideInit /\ [][NextFetch]_vars

----------------------------------------------------------------------------
(* Properties of the crawl (under Spec)                                     *)

FullNames(rs) == {rs[i].full_name : i \in DOMAIN rs}

\* the repositories a languages, pulls or files request of this run was for
RequestedRepos == {reqLog[i].repo : i \in {j \in DOMAIN reqLog : reqLog[j].kind # "save"}}

\* C1: no repository whose name load_progress returned at the start of the
\* run is in repos_to_process, is requested (languages, pull request
\* listing, file list) or gets an insert executed in that run.
C1_ResumeSkipsProcessed ==
    \A X \in Range(loaded) :
        /\ X \notin FullNames(repos_to_process)
        /\ X \notin RequestedRepos
        /\ X \notin insertedRepos
        /\ invocations[X] = 0
        /\ repo_name # X

\* a finished run that loaded a name of its candidate list and processed
\* some other repository
C1_Witness ==
    /\ pc = "done"
    /\ reqLog # <<>>
    /\ \E X \in Range(loaded) : X \in FullNames(repos)

\* C2: every executed insert leaves exactly one row with its issue_url; on
\* an issue_url the table already holds (committed or not) it changes no row
\* and is counted as not inserted (rowcount 0, added_for_repo and
\* total_added as before), on a new one it is counted once.
C2_IdempotentUpsert ==
    [][ (pc = "issue_loop" /\ pc' # "off") =>
          LET url == linked_issues[issueIdx] IN
            /\ RowsFor(committed' \o pending', url) = 1
            /\ HasRow(Table, url) =>
                 /\ rowcount' = 0
                 /\ committed' \o pending' = Table
                 /\ added_for_repo' = added_for_repo
                 /\ total_added' = total_added
            /\ ~HasRow(Table, url) =>
                 /\ rowcount' = 1
                 /\ added_for_repo' = added_for_repo + 1
                 /\ total_added' = total_added + 1 ]_vars

\* an insert has just been executed for an issue_url that had its row, and
\* was ignored
C2_Witness ==
    /\ pc \in {"issue_loop", "pr_end"}
    /\ issueIdx > 1
    /\ rowcount = 0
    /\ RowsFor(Table, linked_issues[issueIdx - 1]) = 1

\* C3: in one run populate_db_from_prs is called at most once per
\* repository name, also when the candidate list holds a name twice.
C3_AtMostOncePerRun == \A r \in Repos : invocations[r] <= 1

\* C4: every name a load_progress has returned is returned by the latest
\* load_progress, whatever saves, kills and restarts came between.
C4_LoadedNamesStay == everLoaded \subseteq Range(loaded)

\* C6: once a PR's commit check has run, fewer than CommitBatch inserted
\* records are uncommitted, however the linked issues are spread over the
\* pull requests.
C6_UncommittedBelowBatch ==
    pc \in {"pr_loop", "final_commit"} => Len(pending) < CommitBatch

\* the requests and saves logged before position q
SavedBefore(q, j) ==
    \E p \in 1..(q - 1) : reqLog[p].kind = "save" /\ reqLog[p].idx = j

\* C9: the repositories of repos_to_process are handled one at a time and
\* in order; a repository's save is its last logged event, every request
\* for a repository comes after the saves of all repositories before it,
\* and between repositories progress.json holds the names loaded at the
\* start followed by the names of the repositories finished so far.
C9_ProgressSavedPerRepo ==
    /\ \A p, q \in DOMAIN reqLog :
         p < q => /\ reqLog[p].idx <= reqLog[q].idx
                  /\ reqLog[p].kind = "save" => reqLog[p].idx < reqLog[q].idx
    /\ \A q \in DOMAIN reqLog :
         /\ reqLog[q].repo = repos_to_process[reqLog[q].idx].full_name
         /\ \A j \in 1..(reqLog[q].idx - 1) : SavedBefore(q, j)
    /\ (pc \notin {"off", "saving"} /\ idx > 1) =>
         /\ processed_repo_names =
              loaded \o [i \in 1..(idx - 1) |-> repos_to_process[i].full_name]
         /\ file = ValidFile(processed_repo_names)
         /\ \A j \in 1..(idx - 1) : SavedBefore(Len(reqLog) + 1, j)

\* a repository without PRs and one with inserted records have both been
\* saved, and requests for a later repository followed a save
C9_Witness ==
    /\ idx > 2
    /\ total_count > 0
    /\ \E p, q \in DOMAIN reqLog :
         /\ p + 1 = q
         /\ reqLog[p].kind = "save"
         /\ reqLog[q].kind = "languages"
         /\ \E n \in 1..(p - 1) : reqLog[n].kind = "pulls" /\ reqLog[n].idx = reqLog[p].idx
         /\ \A n \in 1..(p - 1) : reqLog[n].idx = reqLog[p].idx => reqLog[n].kind # "files"

----------------------------------------------------------------------------
(* Properties of one collector call (under SpecCollect)                     *)

\* the first page in 1..pages whose fetch fails, pages + 1 when none does
FirstFailure(resps, pages) ==
    CHOOSE k \in 1..(pages + 1) :
        /\ k <= pages => ~resps[k].ok
        /\ \A j \in 1..(k - 1) : resps[j].ok

\* what a page contributes: its items, for the pull request listing its
\* merged pull requests
ItemsOf(fn, response) ==
    IF fn = "get_merged_prs" THEN MergedOf(response.data) ELSE response.data

RECURSIVE ItemsOfPages(_, _, _)
ItemsOfPages(fn, resps, n) ==
    IF n = 0 THEN <<>>
    ELSE ItemsOfPages(fn, resps, n - 1) \o ItemsOf(fn, resps[n])

\* C5: a collector asked for `pages` pages requests pages 1, 2, ... in
\* order up to the first page whose fetch fails (all of 1..pages when none
\* fails) and returns the items of the pages before it, in order; a page
\* without items does not end it.
C5_StopOnFailureOnly ==
    cPc = "returned" =>
        LET k == FirstFailure(cResps, cPages) IN
        /\ cReqs = [i \in 1..(IF k <= cPages THEN k ELSE cPages) |-> i]
        /\ cOut = ItemsOfPages(cFn, cResps, k - 1)

\* a call whose first page came back without items, that went on to a page
\* with items and ended at a failed page
C5_Witness ==
    /\ cPc = "returned"
    /\ cPages = MaxPages
    /\ cResps[1] = Ok(<<>>)
    /\ cResps[2].ok /\ cResps[2].data # <<>>
    /\ ~cResps[3].ok
    /\ cOut # <<>>
    /\ cReqs = <<1, 2, 3>>

----------------------------------------------------------------------------
(* Properties of one extractor call (under SpecExtract)                     *)

\* the issue numbers a description's closing references name, in the bare
\* form or in the form qualified with the repository at hand
ReferencedNums(body, repo) ==
    {body.toks[i].num : i \in {j \in DOMAIN body.toks :
        \/ body.toks[j].kind = "kw_bare"
        \/ body.toks[j].kind = "kw_qual" /\ body.toks[j].repo = repo}}

\* C10: get_issues_from_pr returns the issue URL of every referenced issue
\* number exactly once, and nothing for an empty or missing description.
C10_SetSemantics ==
    xPc = "returned" =>
        /\ Range(xOut) = {IssueUrl(xRepo, n) : n \in ReferencedNums(xPr.body, xRepo)}
        /\ \A i, j \in DOMAIN xOut : xOut[i] = xOut[j] => i = j
        /\ (~xPr.body.present \/ xPr.body.toks = <<>>) => xOut = <<>>

----------------------------------------------------------------------------
(* Properties of one fetcher call (under SpecFetch)                         *)

\* the replies the fetcher is to absorb: a rate limit, a transient error
RateLimitReply(r) == r.status = 403 /\ r.hasReset
Retriable(r) == RateLimitReply(r) \/ r.status \in {502, 503, 504}

\* C7: make_request has returned exactly when its last reply is not one to
\* absorb; it returns the response when that reply's status is 200 and None
\* otherwise (a 403 without reset header included); every reply before the
\* last was one to absorb, and no request follows the last reply.
C7_OutcomeClassification ==
    /\ \A i \in 1..(Len(fReplies) - 1) : Retriable(fReplies[i])
    /\ fPc = "returned" =>
         /\ fReplies # <<>>
         /\ ~Retriable(fReplies[Len(fReplies)])
         /\ Len(fSent) = Len(fReplies)
         /\ fResult = "response" <=> fReplies[Len(fReplies)].status = 200
         /\ fResult = "None" <=> fReplies[Len(fReplies)].status # 200
    /\ fPc # "returned" =>
         /\ fResult = "none yet"
         /\ \A i \in DOMAIN fReplies : Retriable(fReplies[i])

\* a call that absorbed a reply and then returned None on a 403 without
\* reset header
C7_Witness ==
    /\ fPc = "returned"
    /\ fResult = "None"
    /\ Len(fReplies) > 1
    /\ fReplies[Len(fReplies)].status = 403
    /\ ~fReplies[Len(fReplies)].hasReset

\* C8: on a 403 with reset time R handled at time t the fetcher sleeps
\* max(0, R - t), never a negative time; the next request is for the same
\* URL and is sent neither before t plus that time nor before R; when the
\* retried request is answered 200 the call returns the response.
C8_RateLimitBackoff ==
    \A i \in DOMAIN fReplies :
        LET r == fReplies[i] IN
        RateLimitReply(r) =>
            /\ r.slept = (IF r.reset > r.at THEN r.reset - r.at ELSE 0)
            /\ r.slept >= 0
            /\ (fPc = "sleeping" /\ i = Len(fReplies)) => fSleep = r.slept
            /\ (fPc # "sleeping" \/ i < Len(fReplies)) => i < Len(fSent)
            /\ i < Len(fSent) =>
                 /\ fSent[i + 1].url = fSent[i].url
                 /\ fSent[i + 1].at >= r.at + r.slept
                 /\ fSent[i + 1].at >= r.reset
            /\ (i + 1 = Len(fReplies) /\ fReplies[i + 1].status = 200) =>
                 fPc = "returned" /\ fResult = "response"

\* a rate limit that resets two seconds after the reply, and another whose
\* reset time had passed, both followed by a retry, the last answered 200
C8_Witness ==
    /\ fPc = "returned"
    /\ fResult = "response"
    /\ \E i \in DOMAIN fReplies :
         /\ RateLimitReply(fReplies[i])
         /\ fReplies[i].reset = fReplies[i].at + 2
         /\ fSent[i + 1].at = fReplies[i].at + 2
    /\ \E i \in DOMAIN fReplies :
         /\ RateLimitReply(fReplies[i])
         /\ fReplies[i].reset < fReplies[i].at
         /\ fReplies[i].slept = 0

----------------------------------------------------------------------------
(* Partial data (under Spec)                                                *)

\* the answer of the file list of a PR of the repository at hand
FilesAnswer(pr) == api.repo[repo_name].files[pr.number]

NoFilesListed(pr) == ~FilesAnswer(pr).ok \/ FilesAnswer(pr).data = <<>>

\* C11: a PR without linked issues gets no insert and no file-list request;
\* for a PR with linked issues whose file list fails or is empty there is
\* still one insert per linked issue, with affected_files = []; a missing
\* base or head commit id gives a null code URL, and the row is inserted
\* all the same.
C11_PartialDataTolerated ==
    [][ /\ (pc = "pr_loop" /\ pc' # "off") =>
             /\ ~prs[prIdx].body.present => linked_issues' = <<>>
             /\ linked_issues' = <<>> =>
                  /\ reqLog' = reqLog
                  /\ Table' = Table
                  /\ pc' = "pr_end"
             /\ linked_issues' # <<>> =>
                  /\ pc' = "issue_loop"
                  /\ issueIdx' = 1
                  /\ Len(reqLog') = Len(reqLog) + 1
                  /\ NoFilesListed(prs[prIdx]) => affected_files' = <<>>
        /\ (pc = "issue_loop" /\ pc' # "off") =>
             LET pr == prs[prIdx]
                 url == linked_issues[issueIdx]
                 row == RowOf(url)
             IN  /\ issueIdx' = issueIdx + 1
                 /\ (pc' = "pr_end") <=> (issueIdx = Len(linked_issues))
                 /\ HasRow(Table', url)
                 /\ rowcount' = 1 => Table'[Len(Table')] = row
                 /\ NoFilesListed(pr) => row.affected_files = <<>>
                 /\ pr.base_sha = "" => row.before_code_url = None
                 /\ pr.head_sha = "" => row.after_code_url = None
                 /\ pr.head_sha # "" => row.after_code_url # None
      ]_vars

\* a PR without description has been passed over, and both linked issues of
\* a PR with no base commit id and a failing file list have had their
\* insert
C11_Witness ==
    /\ pc = "pr_end"
    /\ prIdx > 1
    /\ ~prs[1].body.present
    /\ prs[prIdx].base_sha = ""
    /\ ~FilesAnswer(prs[prIdx]).ok
    /\ Len(linked_issues) = 2
    /\ issueIdx = 3
    /\ affected_files = <<>>

----------------------------------------------------------------------------
(* First writer wins (under Spec)                                           *)

\* the rows a table holds for an issue_url
RowsOf(table, url) == {table[i] : i \in {j \in DOMAIN table : table[j].issue_url = url}}

\* C12: a stored row never changes: whatever is executed next, the table
\* holds for its issue_url that one row, with the same repo_name,
\* pull_request_url, languages, code URLs and affected_files.  (A kill
\* drops the rows of the open transaction; the committed rows stay.)
C12_FirstWriterWins ==
    [][ \A i \in DOMAIN Table :
          (i <= Len(committed) \/ pc' # "off") =>
              RowsOf(Table', Table[i].issue_url) = {Table[i]}
      ]_vars

\* an insert for an issue whose row came from another pull request has been
\* executed
C12_Witness ==
    /\ pc \in {"issue_loop", "pr_end"}
    /\ issueIdx > 1
    /\ rowcount = 0
    /\ \E i \in DOMAIN Table :
         /\ Table[i].issue_url = linked_issues[issueIdx - 1]
         /\ Table[i].pull_request_url # prs[prIdx].html_url

----------------------------------------------------------------------------
(* make_request's loop without end.  The requests and replies before the    *)
(* latest are forgotten and the clock stops at MaxTime, so that a call may  *)
(* go round `while True` for ever; FetchCall and FetchTick are as above.    *)

\* requests.get returns a response the loop retries on
RetriableAnswer ==
    /\ fPc = "waiting"
    /\ \E status \in Statuses, hasReset \in BOOLEAN, reset \in 0..MaxTime :
         /\ HeaderOk(status, hasReset, reset)
         /\ Retriable(Reply(status, hasReset, reset, 0))
         /\ fReplies' = <<Reply(status, hasReset, reset, 0)>>
    /\ fPc' = "replied"
    /\ UNCHANGED <<fUrl, fNow, fSent, fSleep, fResult>>
    /\ UNCHANGED <<crawlVars, collectVars, extractVars>>

\* requests.get returns a 200 or a response of a status not retried on
FinalAnswer ==
    /\ fPc = "waiting"
    /\ \E status \in Statuses, hasReset \in BOOLEAN, reset \in 0..MaxTime :
         /\ HeaderOk(status, hasReset, reset)
         /\ ~Retriable(Reply(status, hasReset, reset, 0))
         /\ fReplies' = <<Reply(status, hasReset, reset, 0)>>
    /\ fPc' = "replied"
    /\ UNCHANGED <<fUrl, fNow, fSent, fSleep, fResult>>
    /\ UNCHANGED <<crawlVars, collectVars, extractVars>>

\* the if/elif chain on the response
HandleReply ==
    /\ fPc = "replied"
    /\ LET r == fReplies[1]
           branch == Classify(r.status, r.hasReset)
       IN  /\ fPc' = IF branch \in {"ok", "failed"} THEN "returned" ELSE "sleeping"
           /\ fResult' = IF branch = "ok" THEN "response"
                         ELSE IF branch = "failed" THEN "None" ELSE fResult
           /\ fSleep' = IF branch = "rate_limited" THEN SleepTime(r.reset, fNow)
                        ELSE IF branch = "server_error" THEN RetryDelay ELSE 0
    /\ UNCHANGED <<fUrl, fNow, fSent, fReplies>>
    /\ UNCHANGED <<crawlVars, collectVars, extractVars>>

\* time.sleep returns and `while True` sends the request again
WakeAndRetry ==
    /\ fPc = "sleeping"
    /\ \E over \in {0, 1} :
         fNow' = IF fNow + fSleep + over > MaxTime THEN MaxTime
                 ELSE IF fNow + fSleep + over < 0 THEN 0
                 ELSE fNow + fSleep + over
    /\ fSent' = <<Sent(fUrl, fNow')>>
    /\ fSleep' = 0
    /\ fPc' = "waiting"
    /\ UNCHANGED <<fUrl, fReplies, fResult>>
    /\ UNCHANGED <<crawlVars, collectVars, extractVars>>

NextFetchLoop ==
    \/ FetchCall
    \/ FetchTick
    \/ RetriableAnswer
    \/ FinalAnswer
    \/ HandleReply
    \/ WakeAndRetry

\* the process runs on (the chain is executed, a sleep ends), and every
\* request gets a response
FetchRuns ==
    /\ WF_vars(HandleReply)
    /\ WF_vars(WakeAndRetry)
    /\ WF_vars(RetriableAnswer \/ FinalAnswer)

\* a call of which nothing is assumed about the server but that it answers
SpecFetchUnfair == SideInit /\ [][NextFetchLoop]_vars /\ FetchRuns

\* a call whose URL gets, at some time, a 200 or a status not retried on
SpecFetchLoop == SpecFetchUnfair /\ SF_vars(FinalAnswer)

\* C13: make_request goes on to another request exactly on a 403 with reset
\* header or a 502/503/504, however many came before, and returns on every
\* other reply; it has returned only on such a reply; and with every URL
\* getting a 200 or a non-retriable status at some time, every call returns.
C13_FetchTerminates ==
    /\ [](fPc = "returned" => ~Retriable(fReplies[1]))
    /\ [][fPc = "replied" =>
            /\ fPc' = "returned" <=> ~Retriable(fReplies[1])
            /\ fPc' = "sleeping" <=> Retriable(fReplies[1])]_vars
    /\ (fPc = "waiting") ~> (fPc = "returned")

\* the call at the start of one more round: its request was sent at the very
\* time the clock showed when the last reply, a retriable one, was handled,
\* so that the same reply takes it to this state again
C13_Witness ==
    /\ fPc = "waiting"
    /\ fReplies # <<>>
    /\ Retriable(fReplies[1])
    /\ fReplies[1].at = fNow
    /\ fSent[1].at = fNow

\* every call returns, whatever the server answers (it does not hold)
C13_ReturnsAnyway == (fPc = "waiting") ~> (fPc = "returned")

----------------------------------------------------------------------------
(* The crawl with storage errors, a run that has started going on until it  *)
(* ends or is killed.                                                       *)

\* the number of tokens of the longest PR description of the APIs the crawl
\* with storage errors runs against
MaxLiveToks == 4

ShortDescriptions(w) ==
    \A p \in DOMAIN w.pulls : \A i \in DOMAIN w.pulls[p].data :
        Len(w.pulls[p].data[i].body.toks) <= MaxLiveToks

\* the searches of those APIs: one that fails at once, one that lists both
\* repositories, and two that list a repository twice
LiveSearches ==
    { <<>>,
      <<Ok(<<Repo("o/a"), Repo("o/b")>>)>>,
      <<Ok(<<Repo("o/b")>>), Ok(<<Repo("o/b")>>)>>,
      <<Ok(<<Repo("o/b")>>), Ok(<<Repo("o/a"), Repo("o/b")>>)>> }

LiveWorlds ==
    {w \in Worlds : /\ w.search \in LiveSearches
                    /\ \A r \in Repos : ShortDescriptions(w.repo[r])}

InitLive ==
    /\ api \in LiveWorlds
    /\ CrawlInit
    /\ CollectIdle
    /\ ExtractIdle
    /\ FetchIdle

NextLive ==
    \/ Startup
    \/ BeginRepo
    \/ PrStep
    \/ InsertIssue
    \/ InsertError
    \/ PrEnd
    \/ FinalCommit
    \/ AppendProgress
    \/ SaveDump
    \/ Finish
    \/ Kill

\* the steps of a run whose requests have returned: each is taken unless
\* the process is killed first
Advance ==
    \/ BeginRepo
    \/ PrStep
    \/ InsertIssue
    \/ PrEnd
    \/ FinalCommit
    \/ AppendProgress
    \/ SaveDump
    \/ Finish

SpecLive == InitLive /\ [][NextLive]_vars /\ WF_vars(Advance)

\* the names of a list of repositories, in its order
NamesOf(rs) == [i \in DOMAIN rs |-> rs[i].full_name]

\* the end of a run: the file lists the names loaded at the start followed
\* by the candidates that were not among them, in the candidates' order,
\* and each of those went through populate_db_from_prs
Completed ==
    /\ pc = "done"
    /\ file = ValidFile(loaded \o NamesOf(ReposToProcess(repos, loaded)))
    /\ \A r \in Range(NamesOf(ReposToProcess(repos, loaded))) : invocations[r] >= 1

\* C14: a run that has started and is not killed reaches its end with every
\* candidate that was not in the loaded list appended to progress.json, in
\* the candidates' order, whatever requests failed and whatever inserts
\* raised on the way.
C14_CrawlCompletes == (pc \notin {"off", "done"}) ~> (pc = "off" \/ Completed)

\* the end of a run over two repositories: every request for the first had
\* failed, and an insert of the second raised
C14_Witness ==
    /\ Completed
    /\ Len(repos_to_process) = 2
    /\ ~api.repo[repos_to_process[1].full_name].langs.ok
    /\ ~api.repo[repos_to_process[1].full_name].pulls[1].ok
    /\ dbErrors # {}

\* C15: an insert that raises is caught: it adds nothing to the counters or
\* to the table and the loop goes on to the next linked issue as it does
\* after any insert; at the end of the repository every PR has been gone
\* through, every linked issue of every PR has its row unless its insert
\* raised, and the final commit has been executed.
C15_StorageErrorIsolated ==
    /\ [][(pc = "issue_loop" /\ pc' # "off" /\ dbErrors' # dbErrors) =>
            /\ added_for_repo' = added_for_repo
            /\ total_added' = total_added
            /\ Table' = Table
            /\ issueIdx' = issueIdx + 1
            /\ linked_issues' = linked_issues
            /\ prIdx' = prIdx
            /\ pc' = (IF issueIdx < Len(linked_issues) THEN "issue_loop" ELSE "pr_end")]_vars
    /\ [](pc = "repo_done" /\ prs # <<>> =>
            /\ prIdx = Len(prs) + 1
            /\ pending = <<>>
            /\ added_for_repo <= Len(committed)
            /\ \A k \in DOMAIN prs :
                 LET li == get_issues_from_pr(prs[k], repo_name) IN
                 \A j \in DOMAIN li :
                     <<prs[k].number, j>> \in dbErrors \/ HasRow(committed, li[j]))
    /\ (pc \in {"issue_loop", "pr_end", "pr_loop", "final_commit"} /\ dbErrors # {})
          ~> (pc = "off" \/ pc = "repo_done")

\* the insert of an issue raised for the first PR naming it; the issue got
\* its row from the next PR naming it, and the repository was committed
C15_Witness ==
    /\ pc = "repo_done"
    /\ dbErrors # {}
    /\ total_added = 1
    /\ pending = <<>>
    /\ \E k \in DOMAIN prs : \E i \in DOMAIN committed :
         /\ k < Len(prs)
         /\ <<prs[k].number, 1>> \in dbErrors
         /\ committed[i].issue_url = get_issues_from_pr(prs[k], repo_name)[1]
         /\ committed[i].pull_request_url = prs[Len(prs)].html_url

----------------------------------------------------------------------------
(* Languages (under Spec)                                                   *)

\* the requests of this run to the languages endpoint of repository r
LanguagesRequests(r) ==
    {i \in DOMAIN reqLog : reqLog[i].kind = "languages" /\ reqLog[i].repo = r}

\* C16: a run sends at most one languages request for a repository name;
\* all rows of a repository carry the same languages value; a failed
\* languages request gives [] and the repository is gone through all the
\* same.
C16_LanguagesOncePerRun ==
    /\ \A r \in Repos : Cardinality(LanguagesRequests(r)) <= 1
    /\ \A i, j \in DOMAIN Table :
         Table[i].repo_name = Table[j].repo_name =>
             Table[i].languages = Table[j].languages
    /\ (pc \in {"pr_loop", "issue_loop", "pr_end", "final_commit", "repo_done"}
          /\ ~api.repo[repo_name].langs.ok) => languages = <<>>

----------------------------------------------------------------------------
(* The issue-driven variant's collector, slim/slim.py, one call of it on    *)
(* any answers of the API.                                                  *)

RECURSIVE slim_mit_repos_loop(_, _, _, _, _)
slim_mit_repos_loop(resps, pages, page, acc, reqs) ==
    IF page > pages THEN [out |-> acc, reqs |-> reqs]
    ELSE LET response == PageResp(resps, page) IN
         IF response.ok
         THEN \* repos.extend(data.get("items", []))
              slim_mit_repos_loop(resps, pages, page + 1, acc \o response.data,
                                  Append(reqs, page))
         ELSE \* return []
              [out |-> <<>>, reqs |-> Append(reqs, page)]

slim_get_mit_repos(resps, pages) == slim_mit_repos_loop(resps, pages, 1, <<>>, <<>>)

CallSlimGetMitRepos ==
    /\ cPc = "idle"
    /\ \E resps \in [1..MaxPages -> SearchAnswers], pages \in 0..MaxPages :
         LET got == slim_get_mit_repos(resps, pages)
         IN  /\ cFn' = "slim.get_mit_repos"
             /\ cResps' = resps
             /\ cPages' = pages
             /\ cOut' = got.out
             /\ cReqs' = got.reqs
    /\ cPc' = "returned"
    /\ UNCHANGED <<crawlVars, extractVars, fetchVars>>

NextSlimCollect == CallSlimGetMitRepos

SpecSlimCollect == SideInit /\ [][NextSlimCollect]_vars

\* C17: slim.py's get_mit_repos returns the items of the pages before the
\* first page whose fetch fails, which is what slim_scraper.py's
\* get_mit_repos returns for the same answers.
C17_SlimKeepsAccumulated ==
    (cPc = "returned" /\ cFn = "slim.get_mit_repos") =>
        /\ cOut = ItemsOfPages(cFn, cResps, FirstFailure(cResps, cPages) - 1)
        /\ cOut = get_mit_repos(cResps, cPages).out

----------------------------------------------------------------------------
(* Commit and progress                                                      *)

\* the rows of repository r that are in the open transaction only
Uncommitted(r) == {i \in DOMAIN pending : pending[i].repo_name = r}

\* C18: no row of a repository whose name is in progress.json is still
\* uncommitted, and when progress.json is written for a repository (after
\* its final commit) no transaction is open.
C18_CommitPrecedesProgress ==
    /\ \A r \in Range(file.names) : Uncommitted(r) = {}
    /\ pc \in {"repo_done", "saving"} => pending = <<>>

----------------------------------------------------------------------------
(* Restart (under Spec)                                                     *)

\* the index in ps of the first pull request that names url
FirstNaming(ps, r, url) ==
    CHOOSE k \in DOMAIN ps :
        /\ url \in Range(get_issues_from_pr(ps[k], r))
        /\ \A j \in 1..(k - 1) : url \notin Range(get_issues_from_pr(ps[j], r))

\* the rows one pass over repository r stores in an empty table
RowsOfPass(r) ==
    LET ps == get_merged_prs(api.repo[r].pulls, PrPages).out
        urls == UNION {Range(get_issues_from_pr(ps[k], r)) : k \in DOMAIN ps}
    IN  { LET pr == ps[FirstNaming(ps, r, url)] IN
          [issue_url |-> url, repo_name |-> r,
           pull_request_url |-> pr.html_url,
           languages |-> get_languages(api.repo[r].langs),
           before_code_url |-> CommitUrl(r, pr.base_sha),
           after_code_url |-> CommitUrl(r, pr.head_sha),
           affected_files |-> get_affected_files(pr.html_url,
                                                 api.repo[r].files[pr.number])]
          : url \in urls }

\* the rows a run that nothing interrupts leaves committed
UninterruptedRows ==
    UNION {RowsOfPass(r) : r \in FullNames(get_mit_repos(api.search, MainPages).out)}

\* the repositories the next start will go through
NextToProcess(f) ==
    FullNames(ReposToProcess(get_mit_repos(api.search, MainPages).out, load_progress(f)))

\* C19: whatever kills came before, a run that ends leaves committed exactly
\* the rows of the uninterrupted run, each once; a kill changes no
\* committed row, the repository in progress at the kill is gone through
\* again by the next run, and every pass starts at the repository's first PR.
C19_RestartEquivalence ==
    /\ []((pc = "done" /\ repos # <<>>) =>
            /\ Range(committed) = UninterruptedRows
            /\ Len(committed) = Cardinality(UninterruptedRows))
    /\ [][(pc' = "off" /\ pc # "off") =>
            /\ committed' = committed
            /\ pc \in {"pr_loop", "issue_loop", "pr_end", "final_commit",
                       "repo_done", "saving"} => repo_name \in NextToProcess(file')]_vars
    /\ [][(pc = "main_loop" /\ pc' = "pr_loop") => prIdx' = 1]_vars

----------------------------------------------------------------------------
(* A failed pull request listing (under Spec)                               *)

\* the first page of the pull request listing of r ends in a failed request
FailedListing(r) == ~api.repo[r].pulls[1].ok

\* C20: for a repository whose pull request listing fails at its first page
\* get_merged_prs returns [] and no row is stored; its name is appended to
\* progress.json like any other; and a run started after a load_progress
\* has returned the name does not request the repository.
C20_FailedListingAsNoPrs ==
    /\ (repo_name # "" /\ FailedListing(repo_name)) =>
         /\ prs = <<>>
         /\ pc \in {"repo_done", "saving", "main_loop", "done"}
         /\ total_added = 0
    /\ \A i \in DOMAIN Table : ~FailedListing(Table[i].repo_name)
    /\ (pc = "main_loop" /\ idx > 1) =>
         /\ file.state = "valid"
         /\ repos_to_process[idx - 1].full_name \in Range(file.names)
    /\ \A r \in everLoaded : FailedListing(r) => r \notin RequestedRepos

====
